---- MODULE Spec2Model ----
(***************************************************************************)
(* Model of MSA.py: class MSA_truss, the direct stiffness method for 2D    *)
(* pin-jointed trusses (Ke_truss, KG, partition, solve).                   *)
(*                                                                         *)
(* Arithmetic.  The program computes in float64/float32.  The model        *)
(* computes exactly, in the field Q(sqrt 2): a number is a triple          *)
(* <<a, b, d>> standing for (a + b*sqrt(2)) / d, in lowest terms with      *)
(* d > 0.  Node coordinates are taken on the unit grid, so that every      *)
(* element length is 0, 1 or sqrt(2) and every quantity the program        *)
(* computes lies in that field.  A denominator of 0 is the non-finite      *)
(* value numpy produces on division by zero (nan; the inf of E*A/0 only    *)
(* ever meets nan or 0 and becomes nan as well).  Rounding is not          *)
(* modelled.                                                               *)
(***************************************************************************)
EXTENDS Integers, Sequences, FiniteSets, TLC

----------------------------------------------------------------------------
(* Bounds of the model *)

\* most elements of a truss
MaxElems == 2
\* Young's modulus of the members is 1..MaxModulus
MaxModulus == 2
\* solve() is called this many times on one instance
MaxCalls == 2
\* a prescribed support displacement is 0..MaxSettle
MaxSettle == 1
\* an applied load is -MaxLoad..-1
MaxLoad == 1
\* node counts the index tables are built for (index specification)
MaxIdxNodes == 130

\* largest value of numpy.int8
Int8Max == 127

----------------------------------------------------------------------------
(* Exact arithmetic in Q(sqrt 2) with a non-finite value *)

Abs(x) == IF x < 0 THEN -x ELSE x

RECURSIVE GCD(_, _)
GCD(x, y) == IF y = 0 THEN x ELSE GCD(y, x % y)

NaN == <<0, 0, 0>>

IsNaN(x) == x[3] = 0

Norm(a, b, d) ==
    IF d = 0 THEN NaN
    ELSE LET s == IF d < 0 THEN -1 ELSE 1
             g == GCD(GCD(Abs(a), Abs(b)), Abs(d))
         IN  <<(s * a) \div g, (s * b) \div g, (s * d) \div g>>

Rat(n) == <<n, 0, 1>>

Zero == Rat(0)

Add(x, y) == Norm(x[1] * y[3] + y[1] * x[3], x[2] * y[3] + y[2] * x[3], x[3] * y[3])

Neg(x) == <<-x[1], -x[2], x[3]>>

Sub(x, y) == Add(x, Neg(y))

Mul(x, y) == Norm(x[1] * y[1] + 2 * x[2] * y[2], x[1] * y[2] + x[2] * y[1], x[3] * y[3])

\* 1/x; 1/0 is non-finite
Recip(x) == Norm(x[1] * x[3], -(x[2] * x[3]), x[1] * x[1] - 2 * x[2] * x[2])

Div(x, y) == Mul(x, Recip(y))

IsZero(x) == x[1] = 0 /\ x[2] = 0 /\ x[3] # 0

\* square root of q = r*r or q = 2*r*r
Sqrt(q) ==
    IF \E r \in 0..q : r * r = q
    THEN Rat(CHOOSE r \in 0..q : r * r = q)
    ELSE <<0, CHOOSE r \in 0..q : 2 * r * r = q, 1>>

----------------------------------------------------------------------------
(* Vectors and matrices, indexed from 0 as numpy arrays are *)

RECURSIVE SumTo(_, _)
\* f[0] + ... + f[n-1]
SumTo(f, n) == IF n = 0 THEN Zero ELSE Add(SumTo(f, n - 1), f[n - 1])

Size(v) == Cardinality(DOMAIN v)

Zeros(n, m) == [r \in 0..(n - 1) |-> [c \in 0..(m - 1) |-> Zero]]

\* A @ B for an n x k matrix A and a k x m matrix B
MatMul(A, B, n, k, m) ==
    [r \in 0..(n - 1) |-> [c \in 0..(m - 1) |->
        SumTo([j \in 0..(k - 1) |-> Mul(A[r][j], B[j][c])], k)]]

\* A @ v for an n x k matrix A and a vector v of length k
MatVec(A, v, n, k) ==
    [r \in 0..(n - 1) |-> SumTo([j \in 0..(k - 1) |-> Mul(A[r][j], v[j])], k)]

VecAdd(v, w) == [i \in DOMAIN v |-> Add(v[i], w[i])]

VecSub(v, w) == [i \in DOMAIN v |-> Sub(v[i], w[i])]

Transpose(A, n, m) == [c \in 0..(m - 1) |-> [r \in 0..(n - 1) |-> A[r][c]]]

HasNaN(A, n, m) == \E r \in 0..(n - 1) : \E c \in 0..(m - 1) : IsNaN(A[r][c])

----------------------------------------------------------------------------
(* Gauss-Jordan elimination: numpy.linalg.inv *)

ScaleRow(row, piv) == [j \in DOMAIN row |-> Div(row[j], piv)]

\* row - f * prow
ElimRow(row, f, prow) == [j \in DOMAIN row |-> Sub(row[j], Mul(f, prow[j]))]

RECURSIVE GaussJordan(_, _, _, _)
\* Reduces [A | B] by rows; columns below c of A are already those of the
\* identity.  LAPACK pivots on the entry of largest magnitude; in exact
\* arithmetic any nonzero pivot gives the same inverse, and the
\* factorisation stops exactly when a column has no nonzero pivot.
GaussJordan(A, B, c, n) ==
    IF c = n THEN [ok |-> TRUE, inv |-> B]
    ELSE LET rows == {r \in c..(n - 1) : ~IsZero(A[r][c])}
         IN  IF rows = {} THEN [ok |-> FALSE, inv |-> B]
             ELSE LET p  == CHOOSE r \in rows : \A q \in rows : r <= q
                      A1 == [A EXCEPT ![c] = A[p], ![p] = A[c]]
                      B1 == [B EXCEPT ![c] = B[p], ![p] = B[c]]
                      pa == ScaleRow(A1[c], A1[c][c])
                      pb == ScaleRow(B1[c], A1[c][c])
                      A2 == [r \in 0..(n - 1) |->
                               IF r = c THEN pa ELSE ElimRow(A1[r], A1[r][c], pa)]
                      B2 == [r \in 0..(n - 1) |->
                               IF r = c THEN pb ELSE ElimRow(B1[r], A1[r][c], pb)]
                  IN  GaussJordan(A2, B2, c + 1, n)

Identity(n) == [r \in 0..(n - 1) |-> [c \in 0..(n - 1) |-> IF r = c THEN Rat(1) ELSE Zero]]

\* numpy.linalg.inv of a finite n x n matrix: ok = FALSE is LinAlgError
Inverse(A, n) == GaussJordan(A, Identity(n), 0, n)

----------------------------------------------------------------------------
(* Integer storage of the index arrays *)

\* variant: the index arrays hold 7-bit values
Int7(x) == ((x + 64) % 128) - 64

\* a value cast to numpy.int8 (two's complement wrap-around)
Int8(x) == ((x + Int8Max + 1) % (2 * Int8Max + 2)) - (Int8Max + 1)

FitsInt8(x) == -(Int8Max + 1) <= x /\ x <= Int8Max

\* a[i] for a Python index i into an axis of length n
PyIndex(i, n) == IF i < 0 THEN i + n ELSE i

\* ien.astype(np.int8)
CastIen(ienArg) == [e \in DOMAIN ienArg |-> <<Int8(ienArg[e][1]), Int8(ienArg[e][2])>>]

\* the two DOF numbers of node i, before they are stored
DofX(i) == i * 2

DofY(i) == i * 2 + 1

\* ind after the first loop of Ke_truss
IndOf(n) == [i \in 0..(n - 1) |-> <<Int8(DofX(i)), Int8(DofY(i))>>]

\* ied after the second loop of Ke_truss
IedOf(indA, ienA, n, m) ==
    [e \in 0..(m - 1) |-> <<indA[PyIndex(ienA[e][1], n)], indA[PyIndex(ienA[e][2], n)]>>]

\* ied[element].flatten()
Flatten(iedE) == [k \in 0..3 |-> iedE[(k \div 2) + 1][(k % 2) + 1]]

----------------------------------------------------------------------------
(* Ke_truss: the element stiffness matrices *)

\* variant: k = [[1, 1], [1, 1]]
LocalKSameSign == [r \in 0..1 |-> [c \in 0..1 |-> Rat(1)]]

\* k = [[1, -1], [-1, 1]]
LocalK == [r \in 0..1 |-> [c \in 0..1 |-> IF r = c THEN Rat(1) ELSE Rat(-1)]]

\* variant: k *= E*A
ScaledKNoLength(EA, L) == [r \in 0..1 |-> [c \in 0..1 |-> Mul(LocalK[r][c], Rat(EA))]]

\* k *= E*A/L
ScaledK(EA, L) == [r \in 0..1 |-> [c \in 0..1 |-> Mul(LocalK[r][c], Div(Rat(EA), L))]]

\* T: row 0 holds the direction cosines in columns 0,1; row 1 in columns 2,3
TransT(nx, ny, L) ==
    [r \in 0..1 |-> [c \in 0..3 |->
        IF c \div 2 = r THEN Div(Rat(IF c % 2 = 0 THEN nx ELSE ny), L) ELSE Zero]]

\* Ke = T.T @ k @ T
GlobalKe(T, k) == MatMul(MatMul(Transpose(T, 2, 4), k, 4, 2, 2), T, 4, 2, 4)

\* the body of the third loop of Ke_truss for element e
ElemKe(coordsA, ienA, propsA, n, e) ==
    LET a  == PyIndex(ienA[e][1], n)
        b  == PyIndex(ienA[e][2], n)
        nx == coordsA[b][1] - coordsA[a][1]
        ny == coordsA[b][2] - coordsA[a][2]
        L  == Sqrt(nx * nx + ny * ny)
    IN  GlobalKe(TransT(nx, ny, L), ScaledK(propsA[e][1] * propsA[e][2], L))

\* Ke_all
KeAll(coordsA, ienA, propsA, n, m) ==
    [e \in 0..(m - 1) |-> ElemKe(coordsA, ienA, propsA, n, e)]

----------------------------------------------------------------------------
(* KG: assembly of the global stiffness matrix *)

\* variant: Kg[r, c] = v
AssignAt(K, r, c, v) == [K EXCEPT ![r][c] = v]

\* Kg[r, c] += v
AddAt(K, r, c, v) == [K EXCEPT ![r][c] = Add(@, v)]

RECURSIVE ScatterFromRawCol(_, _, _, _, _)
\* variant: Kg[idx[row], col] += Ke[element][row, col]
ScatterFromRawCol(K, idx, KeE, n2, p) ==
    IF p = 16 THEN K
    ELSE ScatterFromRawCol(AddAt(K, PyIndex(idx[p \div 4], n2), p % 4,
                                 KeE[p \div 4][p % 4]),
                           idx, KeE, n2, p + 1)

RECURSIVE ScatterFrom(_, _, _, _, _)
\* the row/col double loop of KG for one element, from local pair p on
\* (p = 4*row + col)
ScatterFrom(K, idx, KeE, n2, p) ==
    IF p = 16 THEN K
    ELSE ScatterFrom(AddAt(K, PyIndex(idx[p \div 4], n2), PyIndex(idx[p % 4], n2),
                           KeE[p \div 4][p % 4]),
                     idx, KeE, n2, p + 1)

\* one pass of the element loop of KG
ScatterElem(K, iedE, KeE, n2) == ScatterFrom(K, Flatten(iedE), KeE, n2, 0)

----------------------------------------------------------------------------
(* partition: boundary conditions *)

\* an entry of u or P: the string 'unk' or the text of a number
Unk == [tag |-> "unk", val |-> Zero]

Known(v) == [tag |-> "num", val |-> v]

\* P != 'unk'
MaskU(PA) == [d \in DOMAIN PA |-> PA[d] # Unk]

\* P == 'unk'
MaskS(PA) == [d \in DOMAIN PA |-> PA[d] = Unk]

RECURSIVE CountTo(_, _)
\* number of TRUE entries of mask[0..d-1]
CountTo(mask, d) ==
    IF d = 0 THEN 0 ELSE CountTo(mask, d - 1) + (IF mask[d - 1] THEN 1 ELSE 0)

\* variant: the indices a boolean mask selects, in descending order
MaskIdxDescending(mask) ==
    LET n == Size(mask)
        k == CountTo(mask, n)
    IN  [j \in 0..(k - 1) |->
            CHOOSE d \in 0..(n - 1) : mask[d] /\ CountTo(mask, d) = k - 1 - j]

\* the indices a boolean mask selects, in ascending order
MaskIdx(mask) ==
    LET n == Size(mask)
        k == CountTo(mask, n)
    IN  [j \in 0..(k - 1) |-> CHOOSE d \in 0..(n - 1) : mask[d] /\ CountTo(mask, d) = j]

\* v[mask]
Take(v, mask) == LET I == MaskIdx(mask) IN [j \in DOMAIN I |-> v[I[j]]]

\* Kg[np.ix_(rmask, cmask)]
Block(K, rmask, cmask) ==
    LET I == MaskIdx(rmask)
        J == MaskIdx(cmask)
    IN  [r \in DOMAIN I |-> [c \in DOMAIN J |-> K[I[r]][J[c]]]]

\* astype(np.float32) of an array of strings succeeds
CanFloat(v) == \A j \in DOMAIN v : v[j].tag = "num"

\* astype(np.float32)
AsFloat(v) == [j \in DOMAIN v |-> v[j].val]

----------------------------------------------------------------------------
(* solve: the partitioned linear solve *)

NaNMatrix(n) == [r \in 0..(n - 1) |-> [c \in 0..(n - 1) |-> NaN]]

\* np.linalg.inv(Kuu).  A finite matrix is inverted, or LinAlgError is
\* raised when it is singular.  On a matrix holding a non-finite entry the
\* LU factorisation either carries the entry on (a non-finite inverse) or
\* stops on a zero pivot (LinAlgError); which of the two depends on the
\* pivot search of the LAPACK build, nanPivot.
LinalgInv(Kuu, nu, nanPivot) ==
    IF HasNaN(Kuu, nu, nu)
    THEN [ok |-> nanPivot, inv |-> NaNMatrix(nu)]
    ELSE Inverse(Kuu, nu)

\* du = inv(Kuu) @ (Pu - Kus @ ds)
SolveDu(KuuInv, Pu, Kus, ds) ==
    LET nu == Size(Pu)
        ns == Size(ds)
    IN  MatVec(KuuInv, VecSub(Pu, MatVec(Kus, ds, nu, ns)), nu, nu)

\* Rs = Ksu @ du + Kss @ ds
SolveRs(Ksu, Kss, du, ds) ==
    LET nu == Size(du)
        ns == Size(ds)
    IN  VecAdd(MatVec(Ksu, du, ns, nu), MatVec(Kss, ds, ns, ns))

----------------------------------------------------------------------------
(* State *)

VARIABLES
    given,        \* the arguments the instance was constructed with
    coords, ien, props, u, P, n_nodes, n_elements, ind, ied,   \* self.*
    nan_pivot,    \* the LAPACK build pivots on a non-finite entry
    pc,           \* position inside solve(): idle, KG_alloc, KG_loop, solve
    calls,        \* number of calls of solve() started
    Ke,           \* KG's local: the list Ke_truss returned
    Kg,           \* KG's local, then partition's
    element,      \* loop variable over the elements
    node,         \* Ke_truss's loop variable i over the nodes
    part,         \* solve's locals Pu, ds, Kuu, Kus, Ksu, Kss
    returned      \* what each finished call returned or raised

vars == <<given, coords, ien, props, u, P, n_nodes, n_elements, ind, ied,
          nan_pivot, pc, calls, Ke, Kg, element, node, part, returned>>

\* what no method assigns after __init__
self == <<coords, ien, props, u, P, n_nodes, n_elements, nan_pivot, node>>

NoPart == [Pu |-> <<>>, ds |-> <<>>, Kuu |-> <<>>, Kus |-> <<>>, Ksu |-> <<>>, Kss |-> <<>>]

\* __init__
Construct(a) ==
    /\ given = a
    /\ coords = a.coords
    /\ ien = CastIen(a.ien)
    /\ props = a.props
    /\ u = a.u
    /\ P = a.P
    /\ n_nodes = Size(a.coords)
    /\ n_elements = Size(a.ien)
    /\ ind = [i \in 0..(Size(a.coords) - 1) |-> <<0, 0>>]
    /\ ied = [e \in 0..(Size(a.ien) - 1) |-> <<<<0, 0>>, <<0, 0>>>>]
    /\ pc = "idle"
    /\ calls = 0
    /\ Ke = <<>>
    /\ Kg = <<>>
    /\ element = 0
    /\ node = 0
    /\ part = NoPart
    /\ returned = <<>>

----------------------------------------------------------------------------
(* Inputs *)

\* a Python list as an array indexed from 0
Vec(seq) == [j \in 0..(Len(seq) - 1) |-> seq[j + 1]]

\* node layouts on the unit grid; the last one has two nodes at one place
Layouts ==
    { [i \in 0..1 |-> <<i, 0>>],
      [i \in 0..2 |-> <<IF i = 0 THEN 0 ELSE 1, IF i = 2 THEN 1 ELSE 0>>],
      [i \in 0..2 |-> <<IF i = 0 THEN 0 ELSE 1, 0>>] }

\* connectivity: m different node pairs, listed in ascending order
PairCode(pr, n) == pr[1] * n + pr[2]

Pairs(n) == {pr \in (0..(n - 1)) \X (0..(n - 1)) : pr[1] < pr[2]}

ElemLists(n, m) ==
    {l \in [0..(m - 1) -> Pairs(n)] :
        \A e \in 0..(m - 2) : PairCode(l[e], n) < PairCode(l[e + 1], n)}

\* boundary conditions: kinds[d] says which of u[d], P[d] is 'unk'.  The
\* highest DOF with a known force carries the load, the lowest DOF with a
\* known displacement the support settlement; every other known value is 0.
Last(mask) == CHOOSE d \in DOMAIN mask : mask[d] /\ \A q \in DOMAIN mask : mask[q] => q <= d

First(mask) == CHOOSE d \in DOMAIN mask : mask[d] /\ \A q \in DOMAIN mask : mask[q] => d <= q

ForceOf(kinds, load) ==
    LET kn == [d \in DOMAIN kinds |-> kinds[d] \in {"free", "both_known"}]
    IN  [d \in DOMAIN kinds |->
            IF ~kn[d] THEN Unk
            ELSE IF d = Last(kn) THEN Known(Rat(-load)) ELSE Known(Zero)]

DisplOf(kinds, settle) ==
    LET kn == [d \in DOMAIN kinds |-> kinds[d] \in {"fixed", "both_known"}]
    IN  [d \in DOMAIN kinds |->
            IF ~kn[d] THEN Unk
            ELSE IF d = First(kn) THEN Known(Rat(settle)) ELSE Known(Zero)]

Args(layout, conn, modulus, kinds, load, settle) ==
    [coords |-> layout,
     ien    |-> conn,
     props  |-> [e \in DOMAIN conn |-> <<modulus, 1>>],
     u      |-> DisplOf(kinds, settle),
     P      |-> ForceOf(kinds, load)]

\* P holds at least one 'unk': numpy then stores P as strings, as the class
\* documents, and P != 'unk' compares element by element
HasUnk(kinds) == \E d \in DOMAIN kinds : kinds[d] \in {"fixed", "both_unk"}

\* element e of the arguments a has length 0
ZeroLength(a, e) == a.coords[a.ien[e][1]] = a.coords[a.ien[e][2]]

Degenerate(a) == \E e \in DOMAIN a.ien : ZeroLength(a, e)

\* the build only shows on a non-finite matrix
Builds(a) == IF Degenerate(a) THEN BOOLEAN ELSE {TRUE}

\* trusses with complete boundary conditions
Init ==
    \E layout \in Layouts :
    \E m \in 1..MaxElems :
    \E conn \in ElemLists(Size(layout), m) :
    \E modulus \in 1..MaxModulus :
    \E kinds \in [0..(2 * Size(layout) - 1) -> {"free", "fixed"}] :
    \E load \in 1..MaxLoad :
    \E settle \in 0..MaxSettle :
        /\ HasUnk(kinds)
        /\ Construct(Args(layout, conn, modulus, kinds, load, settle))
        /\ nan_pivot \in Builds(given)

\* the truss of test_msa.py with any marking of u and P
TestCoords == [i \in 0..2 |-> <<IF i = 0 THEN 0 ELSE 1, IF i = 2 THEN 1 ELSE 0>>]

TestIen == [e \in 0..1 |-> <<0, e + 1>>]

InitBC ==
    \E kinds \in [0..5 -> {"free", "fixed", "both_known", "both_unk"}] :
    \E load \in 1..MaxLoad :
    \E settle \in 0..MaxSettle :
        /\ HasUnk(kinds)
        /\ Construct(Args(TestCoords, TestIen, 1, kinds, load, settle))
        /\ nan_pivot = TRUE

----------------------------------------------------------------------------
(* Operations *)

\* solve() is called; it calls partition(), which calls KG(), which calls
\* Ke_truss()
Ke_truss ==
    /\ pc = "idle"
    /\ calls < MaxCalls
    /\ calls' = calls + 1
    /\ ind' = IndOf(n_nodes)
    /\ ied' = IedOf(IndOf(n_nodes), ien, n_nodes, n_elements)
    /\ Ke' = KeAll(coords, ien, props, n_nodes, n_elements)
    /\ pc' = "KG_alloc"
    /\ UNCHANGED <<given, self, Kg, element, part, returned>>

\* variant: Kg is allocated by the first call only
KG_allocOnce ==
    /\ pc = "KG_alloc"
    /\ Kg' = IF Kg = <<>> THEN Zeros(2 * n_nodes, 2 * n_nodes) ELSE Kg
    /\ element' = 0
    /\ pc' = "KG_loop"
    /\ UNCHANGED <<given, self, ind, ied, calls, Ke, part, returned>>

\* Kg = np.zeros(...)
KG_alloc ==
    /\ pc = "KG_alloc"
    /\ Kg' = Zeros(2 * n_nodes, 2 * n_nodes)
    /\ element' = 0
    /\ pc' = "KG_loop"
    /\ UNCHANGED <<given, self, ind, ied, calls, Ke, part, returned>>

\* one pass of "for element in range(self.n_elements)"
KG_scatter ==
    /\ pc = "KG_loop"
    /\ element < n_elements
    /\ Kg' = ScatterElem(Kg, ied[element], Ke[element], 2 * n_nodes)
    /\ element' = element + 1
    /\ UNCHANGED <<given, self, ind, ied, pc, calls, Ke, part, returned>>

\* a call of solve() ends.  The locals Ke, Kg, element and part keep their
\* last values here; every call assigns each of them before it reads it.
Return(outcome, du, Rs) ==
    /\ returned' = Append(returned, [outcome |-> outcome, du |-> du, Rs |-> Rs])
    /\ pc' = "idle"

\* KG returns Kg; the rest of partition
partition ==
    /\ pc = "KG_loop"
    /\ element = n_elements
    /\ LET U_idx == MaskU(P)
           S_idx == MaskS(P)
       IN  IF CanFloat(Take(P, U_idx)) /\ CanFloat(Take(u, S_idx))
           THEN /\ part' = [Pu  |-> AsFloat(Take(P, U_idx)),
                            ds  |-> AsFloat(Take(u, S_idx)),
                            Kuu |-> Block(Kg, U_idx, U_idx),
                            Kus |-> Block(Kg, U_idx, S_idx),
                            Ksu |-> Block(Kg, S_idx, U_idx),
                            Kss |-> Block(Kg, S_idx, S_idx)]
                /\ pc' = "solve"
                /\ UNCHANGED returned
           ELSE Return("ValueError", <<>>, <<>>) /\ UNCHANGED part
    /\ UNCHANGED <<given, self, ind, ied, calls, Ke, Kg, element>>

\* the two lines of solve after partition()
solve ==
    /\ pc = "solve"
    /\ LET r == LinalgInv(part.Kuu, Size(part.Pu), nan_pivot)
       IN IF r.ok
          THEN LET du == SolveDu(r.inv, part.Pu, part.Kus, part.ds)
               IN  Return("ok", du, SolveRs(part.Ksu, part.Kss, du, part.ds))
          ELSE Return("LinAlgError", <<>>, <<>>)
    /\ UNCHANGED <<given, self, ind, ied, calls, Ke, Kg, element, part>>

Next == Ke_truss \/ KG_alloc \/ KG_scatter \/ partition \/ solve

Spec == Init /\ [][Next]_vars

----------------------------------------------------------------------------
(* The index arrays of large models.  The two index loops of Ke_truss are  *)
(* taken one assignment at a time, for trusses of up to MaxIdxNodes nodes  *)
(* on a line with two elements between the first and the last node.        *)

LineArgs(n) ==
    Args([i \in 0..(n - 1) |-> <<i, 0>>],
         Vec(<< <<0, n - 1>>, <<n - 1, 0>> >>),
         1, [d \in 0..(2 * n - 1) |-> "fixed"], 1, 0)

InitIdx ==
    \E n \in 1..MaxIdxNodes :
        /\ Construct(LineArgs(n))
        /\ nan_pivot = TRUE

fields == <<given, coords, ien, props, u, P, n_nodes, n_elements, nan_pivot>>

\* Ke_truss is entered
Ke_truss_begin ==
    /\ pc = "idle"
    /\ calls = 0
    /\ calls' = 1
    /\ element' = 0
    /\ node' = 0
    /\ pc' = "ind_loop"
    /\ UNCHANGED <<fields, ind, ied, Ke, Kg, part, returned>>

\* the loop variables elem_idx (element) and i (node) after one more pass
IndLoopAdvance ==
    IF node + 1 < n_nodes
    THEN /\ node' = node + 1
         /\ UNCHANGED <<element, pc>>
    ELSE /\ node' = 0
         /\ IF element + 1 < n_elements
            THEN element' = element + 1 /\ UNCHANGED pc
            ELSE element' = 0 /\ pc' = "ied_loop"

\* self.ind[i, 0] = i * 2; self.ind[i, 1] = i * 2 + 1.  A value beyond int8
\* is stored wrapped around by NumPy 1.x.
Ke_truss_ind ==
    /\ pc = "ind_loop"
    /\ ind' = [ind EXCEPT ![node] = <<Int8(DofX(node)), Int8(DofY(node))>>]
    /\ IndLoopAdvance
    /\ UNCHANGED <<fields, ied, calls, Ke, Kg, part, returned>>

\* the same assignment under NumPy 2, which raises OverflowError for a
\* Python integer beyond int8
Ke_truss_ind_raise ==
    /\ pc = "ind_loop"
    /\ ~(FitsInt8(DofX(node)) /\ FitsInt8(DofY(node)))
    /\ pc' = "OverflowError"
    /\ UNCHANGED <<fields, ind, ied, calls, Ke, Kg, element, node, part, returned>>

\* self.ied[i, 0] = self.ind[self.ien[i, 0]]; self.ied[i, 1] = ...
Ke_truss_ied ==
    /\ pc = "ied_loop"
    /\ ied' = [ied EXCEPT ![element] = <<ind[PyIndex(ien[element][1], n_nodes)],
                                         ind[PyIndex(ien[element][2], n_nodes)]>>]
    /\ IF element + 1 < n_elements
       THEN element' = element + 1 /\ UNCHANGED pc
       ELSE element' = 0 /\ pc' = "idx_done"
    /\ UNCHANGED <<fields, ind, calls, Ke, Kg, node, part, returned>>

NextIdx == Ke_truss_begin \/ Ke_truss_ind \/ Ke_truss_ind_raise \/ Ke_truss_ied

SpecIdx == InitIdx /\ [][NextIdx]_vars

SpecBC == InitBC /\ [][Next]_vars

----------------------------------------------------------------------------
(* Vocabulary of the properties *)

DOFs == 0..(2 * n_nodes - 1)

\* DOFs whose force is known on input, and those whose force is 'unk'
ForceKnown == {d \in DOFs : P[d].tag = "num"}

ForceUnknown == {d \in DOFs : P[d].tag = "unk"}

\* exactly one of u[d], P[d] is 'unk'
Complete == \A d \in DOFs : (u[d].tag = "unk") # (P[d].tag = "unk")

Misconfigured == \E d \in DOFs : u[d].tag = P[d].tag

ValidElems == ~Degenerate(given)

\* position of d among the members of S, counted from 0
Rank(d, S) == Cardinality({q \in S : q < d})

\* the global DOFs [2a, 2a+1, 2b, 2b+1] of element e
TrueIdx(e) == [k \in 0..3 |-> 2 * given.ien[e][(k \div 2) + 1] + (k % 2)]

\* the element stiffness matrix in closed form:
\* (E*A/L) * [[cc, cs, -cc, -cs], [cs, ss, -cs, -ss], [-cc, ...], ...]
RefKe(e) ==
    LET a   == given.coords[given.ien[e][1]]
        b   == given.coords[given.ien[e][2]]
        dir == <<b[1] - a[1], b[2] - a[2]>>
        L2  == dir[1] * dir[1] + dir[2] * dir[2]
        EA  == given.props[e][1] * given.props[e][2]
    IN  [row \in 0..3 |-> [col \in 0..3 |->
            Div(Rat((IF row \div 2 = col \div 2 THEN 1 ELSE -1)
                      * EA * dir[(row % 2) + 1] * dir[(col % 2) + 1]),
                Mul(Rat(L2), Sqrt(L2)))]]

\* the sum of the entries KeOf(e)[row][col] that belong at Kg[r][c]
SumAt(KeOf(_), r, c) ==
    SumTo([q \in 0..(16 * n_elements - 1) |->
              LET e   == q \div 16
                  row == (q % 16) \div 4
                  col == q % 4
              IN  IF TrueIdx(e)[row] = r /\ TrueIdx(e)[col] = c
                  THEN KeOf(e)[row][col] ELSE Zero],
          16 * n_elements)

RefKg == [r \in DOFs |-> [c \in DOFs |-> SumAt(RefKe, r, c)]]

\* the full displacement and force vectors a result res stands for, when
\* its entries are read in ascending DOF order
FullU(res) ==
    [d \in DOFs |-> IF d \in ForceKnown THEN res.du[Rank(d, ForceKnown)] ELSE u[d].val]

FullP(res) ==
    [d \in DOFs |-> IF d \in ForceKnown THEN P[d].val ELSE res.Rs[Rank(d, ForceUnknown)]]

\* equality as numpy compares numbers: a non-finite value equals nothing
EqNum(x, y) == ~IsNaN(x) /\ ~IsNaN(y) /\ x = y

Symmetric(K) == \A i \in DOMAIN K : \A j \in DOMAIN K : EqNum(K[i][j], K[j][i])

Finite(v) == \A j \in DOMAIN v : ~IsNaN(v[j])

Finished == DOMAIN returned

Solved(k) == returned[k].outcome = "ok"

KGDone == pc = "KG_loop" /\ element = n_elements

----------------------------------------------------------------------------
(* C1: boundary conditions *)

\* C1: if some DOF is known in both u and P, or 'unk' in both, no call of
\* solve() returns a (du, Rs) result: every call ends in an error.
C1_MisconfiguredRejected ==
    Misconfigured => \A k \in Finished : ~Solved(k)

----------------------------------------------------------------------------
(* C2: size and order of the results *)

\* C2: with complete boundary conditions, a result has one du entry per DOF
\* with known force and one Rs entry per DOF with unknown force, 2N in all,
\* and the entries stand in ascending DOF order: reading the k-th entry of
\* du as the displacement of the k-th smallest force-known DOF and the k-th
\* entry of Rs as the force at the k-th smallest force-unknown DOF gives
\* full vectors that satisfy Kg * u = P (for trusses of finite stiffness).
C2_AscendingDofOrder ==
    \A k \in Finished :
        (Complete /\ Solved(k)) =>
            /\ DOMAIN returned[k].du = 0..(Cardinality(ForceKnown) - 1)
            /\ DOMAIN returned[k].Rs = 0..(Cardinality(ForceUnknown) - 1)
            /\ Size(returned[k].du) + Size(returned[k].Rs) = 2 * n_nodes
            /\ ValidElems =>
                  MatVec(RefKg, FullU(returned[k]), 2 * n_nodes, 2 * n_nodes)
                      = FullP(returned[k])

\* a result whose force-known DOFs are not contiguous and whose entries differ
C2_Witness ==
    /\ Complete /\ ValidElems
    /\ returned # <<>> /\ Solved(1)
    /\ \E d1, d2, d3 \in DOFs :
          /\ d1 < d2 /\ d2 < d3
          /\ d1 \in ForceKnown /\ d2 \in ForceUnknown /\ d3 \in ForceKnown
    /\ \E i, j \in DOMAIN returned[1].du : returned[1].du[i] # returned[1].du[j]
    /\ \E i, j \in DOMAIN returned[1].Rs : returned[1].Rs[i] # returned[1].Rs[j]

----------------------------------------------------------------------------
(* C3: equilibrium *)

SumX(v) == SumTo([i \in 0..(n_nodes - 1) |-> v[2 * i]], n_nodes)

SumY(v) == SumTo([i \in 0..(n_nodes - 1) |-> v[2 * i + 1]], n_nodes)

\* C3: for a valid solve (complete boundary conditions, elements of
\* positive length, Kuu inverted) the known forces together with the solved
\* reactions sum to zero over the x-DOFs and over the y-DOFs.
C3_Equilibrium ==
    \A k \in Finished :
        (Complete /\ ValidElems /\ Solved(k)) =>
            /\ SumX(FullP(returned[k])) = Zero
            /\ SumY(FullP(returned[k])) = Zero

\* a solve with a load and nonzero reactions in both directions
C3_Witness ==
    /\ Complete /\ ValidElems
    /\ returned # <<>> /\ Solved(1)
    /\ \E d \in ForceKnown : ~IsZero(P[d].val)
    /\ \E i \in 0..(n_nodes - 1) :
          2 * i \in ForceUnknown /\ ~IsZero(FullP(returned[1])[2 * i])
    /\ \E i \in 0..(n_nodes - 1) :
          2 * i + 1 \in ForceUnknown /\ ~IsZero(FullP(returned[1])[2 * i + 1])

----------------------------------------------------------------------------
(* C4: repeated calls *)

\* C4: every later call of solve() on the instance returns (or raises) what
\* the first call did, and coords, ien, props, u, P stay as constructed.
C4_Idempotent ==
    /\ \A k \in Finished : returned[k] = returned[1]
    /\ coords = given.coords /\ ien = given.ien /\ props = given.props
    /\ u = given.u /\ P = given.P

\* two calls have returned a result, with ind and ied left by the first
C4_Witness ==
    /\ Len(returned) >= 2 /\ Solved(1) /\ Solved(2)
    /\ Size(returned[2].du) >= 1
    /\ \E j \in DOMAIN returned[2].du : ~IsZero(returned[2].du[j])
    /\ \E e \in DOMAIN ied : ied[e] # <<<<0, 0>>, <<0, 0>>>>

----------------------------------------------------------------------------
(* C5: additive assembly *)

KeLocal(e) == Ke[e]

MatAdd(A, B) == [r \in DOMAIN A |-> [c \in DOMAIN A[r] |-> Add(A[r][c], B[r][c])]]

RECURSIVE AssembleRange(_, _)
\* the matrix KG assembles from the elements lo..hi-1 alone
AssembleRange(lo, hi) ==
    IF hi <= lo THEN Zeros(2 * n_nodes, 2 * n_nodes)
    ELSE ScatterElem(AssembleRange(lo, hi - 1), ied[hi - 1], Ke[hi - 1], 2 * n_nodes)

\* C5: when KG's loop is over, Kg[r][c] is the sum of all element entries
\* Ke_e[row][col] whose global DOFs are (r, c); and assembling the first j
\* elements and the remaining ones separately and adding the two matrices
\* gives the same Kg, for every j.
C5_AdditiveAssembly ==
    (KGDone /\ ValidElems) =>
        /\ \A r, c \in DOFs : Kg[r][c] = SumAt(KeLocal, r, c)
        /\ \A j \in 0..n_elements :
              MatAdd(AssembleRange(0, j), AssembleRange(j, n_elements)) = Kg

\* two elements share a node and both put stiffness on one diagonal entry
C5_Witness ==
    /\ KGDone /\ ValidElems
    /\ \E e1, e2 \in DOMAIN Ke : \E p1, p2 \in 0..3 :
          /\ e1 # e2
          /\ TrueIdx(e1)[p1] = TrueIdx(e2)[p2]
          /\ ~IsZero(Ke[e1][p1][p1]) /\ ~IsZero(Ke[e2][p2][p2])
          /\ Kg[TrueIdx(e1)[p1]][TrueIdx(e1)[p1]] = Add(Ke[e1][p1][p1], Ke[e2][p2][p2])

----------------------------------------------------------------------------
(* C6: symmetry *)

\* C6: for elements of positive length every element matrix is symmetric,
\* and Kg is symmetric after each element's scatter and when KG returns.
C6_Symmetric ==
    (pc \in {"KG_loop", "solve"} /\ ValidElems) =>
        /\ \A e \in DOMAIN Ke : Symmetric(Ke[e])
        /\ Symmetric(Kg)

\* between two scatters, with an inclined element already in Kg
C6_Witness ==
    /\ pc = "KG_loop" /\ ValidElems
    /\ 0 < element /\ element < n_elements
    /\ \E i, j \in DOFs : i \div 2 # j \div 2 /\ i % 2 # j % 2 /\ ~IsZero(Kg[i][j])

----------------------------------------------------------------------------
(* C7: zero-length elements *)

\* C7: with an element of length 0 no element matrix, global matrix or
\* result holding a non-finite value exists at any time, and every call of
\* solve() ends in the degenerate-element error.
C7_DegenerateRejected ==
    Degenerate(given) =>
        /\ \A e \in DOMAIN Ke : ~HasNaN(Ke[e], 4, 4)
        /\ Kg # <<>> => ~HasNaN(Kg, 2 * n_nodes, 2 * n_nodes)
        /\ \A k \in Finished : returned[k].outcome = "DegenerateElementError"

----------------------------------------------------------------------------
(* C8: singular Kuu *)

\* C8: a call of solve() that finds Kuu singular ends in the
\* structural-instability error, which is not the generic error of the
\* linear algebra library.
C8_InstabilityReported ==
    (/\ pc = "idle" /\ returned # <<>> /\ Complete /\ ValidElems
     /\ ~Inverse(part.Kuu, Size(part.Pu)).ok)
        => returned[Len(returned)].outcome = "StructuralInstabilityError"

----------------------------------------------------------------------------
(* C9: the end-to-end scenario *)

TestTruss ==
    /\ given.coords = TestCoords
    /\ given.ien = TestIen
    /\ given.props = [e \in 0..1 |-> <<1, 1>>]

\* du = (1, -1 - 2*sqrt(2)), Rs = (-1, 0, 1, 1)
Expected ==
    [outcome |-> "ok",
     du      |-> Vec(<< Rat(1), <<-1, -2, 1>> >>),
     Rs      |-> Vec(<< Rat(-1), Zero, Rat(1), Rat(1) >>)]

\* node0 and node1 fixed, node2 free and loaded with (0, -1)
SpecScenario ==
    /\ TestTruss
    /\ u = Vec(<<Known(Zero), Known(Zero), Known(Zero), Known(Zero), Unk, Unk>>)
    /\ P = Vec(<<Unk, Unk, Unk, Unk, Known(Zero), Known(Rat(-1))>>)

\* test_msa.py: node1 and node2 fixed, node0 free and loaded with (0, -1)
TestScenario ==
    /\ TestTruss
    /\ u = Vec(<<Unk, Unk, Known(Zero), Known(Zero), Known(Zero), Known(Zero)>>)
    /\ P = Vec(<<Known(Zero), Known(Rat(-1)), Unk, Unk, Unk, Unk>>)

\* C9 as stated: in the scenario with node2 free, solve() returns the
\* expected displacements and reactions.
C9_AsStated ==
    SpecScenario => \A k \in Finished : returned[k] = Expected

\* C9 amended: in the scenario with node0 free and node1, node2 fixed,
\* solve() returns du = (1, -1 - 2*sqrt(2)), the displacements of node0, and
\* Rs = (-1, 0, 1, 1).
C9_TestScenario ==
    TestScenario => \A k \in Finished : returned[k] = Expected

C9_Witness == TestScenario /\ returned # <<>> /\ returned[1] = Expected

----------------------------------------------------------------------------
(* C10: width of the index arrays *)

\* the most nodes whose DOF numbers 0..2n-1 all fit int8
SafeNodes == (Int8Max + 1) \div 2

TrueInd == [i \in 0..(n_nodes - 1) |-> <<2 * i, 2 * i + 1>>]

TrueIed == [e \in 0..(n_elements - 1) |->
               <<TrueInd[given.ien[e][1]], TrueInd[given.ien[e][2]]>>]

\* node i has had its row of ind assigned
IndWritten(i) == pc \in {"ied_loop", "idx_done"} \/ (pc = "ind_loop" /\ (element > 0 \/ i < node))

IedWritten(e) == pc = "idx_done" \/ (pc = "ied_loop" /\ e < element)

\* every index stored so far is the true one and no store has failed
IndicesFaithful ==
    /\ pc # "OverflowError"
    /\ ien = given.ien
    /\ \A i \in 0..(n_nodes - 1) : IndWritten(i) => ind[i] = TrueInd[i]
    /\ \A e \in 0..(n_elements - 1) : IedWritten(e) => ied[e] = TrueIed[e]

\* C10 as stated: for models of up to 127 nodes every node and DOF index is
\* stored in ien, ind and ied without overflow.
C10_AsStated ==
    n_nodes <= Int8Max => IndicesFaithful

\* C10 amended: the indices are stored without overflow for models of up to
\* 64 nodes; a model of 65 or more nodes does not get its true ind.
C10_SafeUpTo64Nodes ==
    /\ n_nodes <= SafeNodes => IndicesFaithful
    /\ (n_nodes > SafeNodes /\ pc = "idx_done") => ind # TrueInd

\* the largest safe model with its tables built: DOF 127 is stored
C10_Witness ==
    /\ n_nodes = SafeNodes
    /\ pc = "idx_done"
    /\ ind[n_nodes - 1] = <<Int8Max - 1, Int8Max>>
    /\ ied[0] = <<<<0, 1>>, <<Int8Max - 1, Int8Max>>>>

====
